---- MODULE Spec2Model ----
(***************************************************************************)
(* The multi-model prompt playground: the browser side (playground.js) and *)
(* the run_prompt / analyze_results endpoints it talks to.                 *)
(*                                                                         *)
(* Text is a sequence of characters over {" ", "a"}, so that trim() is a   *)
(* real operation.  A JavaScript null is the empty sequence None and a     *)
(* non-null value v is Some(v) = <<v>>.                                    *)
(***************************************************************************)
EXTENDS Integers, Sequences, FiniteSets, TLC

\* ------------------------------------------------------------------ bounds
MaxDay == 1
MaxEdits == 4
MaxClicks == 4
MaxMessages == 2
MaxAuthEvents == 2
MaxSubmits == 2
MinPasswordLength == 6
TicksPerDay == 2

\* ------------------------------------------------------------------ values
None == <<>>
Some(v) == <<v>>

Texts == {<<>>, <<" ">>, <<"a">>, <<" ", "a">>}
SysTexts == {<<>>, <<"a">>}
Days == 0..MaxDay

\* The browser clock counts instants, TicksPerDay of them in a calendar day.
\* Date.prototype.toISOString and new Date(iso) keep the instant;
\* toDateString keeps its calendar day alone.
LastInstant == (MaxDay + 1) * TicksPerDay - 1
toDateString(instant) == instant \div TicksPerDay

RECURSIVE trimStart(_)
trimStart(s) == IF s # <<>> /\ Head(s) = " " THEN trimStart(Tail(s)) ELSE s

RECURSIVE trimEnd(_)
trimEnd(s) == IF s # <<>> /\ s[Len(s)] = " " THEN trimEnd(SubSeq(s, 1, Len(s) - 1)) ELSE s

trim(s) == trimEnd(trimStart(s))

DefaultModels == <<"gemini-2.0-flash-exp", "gpt-4-turbo", "gpt-3.5-turbo">>
DisabledModel == "claude-3-opus"
modelCards == {DefaultModels[i] : i \in 1..Len(DefaultModels)} \cup {DisabledModel}
ClickableCards == modelCards \ {DisabledModel}

includes(seq, x) == \E i \in 1..Len(seq) : seq[i] = x

RECURSIVE filterOut(_, _)
filterOut(seq, x) ==
    IF seq = <<>> THEN <<>>
    ELSE IF Head(seq) = x THEN filterOut(Tail(seq), x)
    ELSE <<Head(seq)>> \o filterOut(Tail(seq), x)

\* ------------------------------------------------------------------ state
VARIABLES
    selectedModels,        \* let selectedModels
    isAnalyzing,           \* let isAnalyzing
    currentResults,        \* let currentResults: None or Some(results)
    systemInstructionEl,   \* systemInstructionEl.value
    userPromptEl,          \* userPromptEl.value
    analyzeButton,         \* analyzeButton.disabled
    clearButton,           \* clearButton has class 'hidden'
    selectedCards,         \* the model cards that carry class 'selected'
    resultsContainer,      \* what resultsContainer shows: [kind, cards]
    metaAnalysisEl,        \* the #metaAnalysis element last created: [display, content, analysis]
    metaInDocument,        \* whether that element is still inside resultsContainer
    localStorage,          \* localStorage['playgroundState']: None or Some(state)
    today,                 \* new Date(): the instant the browser clock shows
    pc,                    \* where the running handleAnalyze is suspended
    locals,                \* its locals: [systemInstruction, userPrompt, results]
    request,               \* the fetch in flight: None or Some([url, body])
    sent,                  \* requests sent by the current handleAnalyze call: [run, meta]
    settled,               \* the last fetch the page saw settle: [url, outcome]
    edits,                 \* input events so far (bounded by MaxEdits)
    configured,            \* providers whose credentials are present on the server
    server,                \* the backend's progress on the request it is serving
    auth,                  \* the authentication script: session check, overlay, location
    nav,                   \* the navigation script: panels, buttons, mode flags
    signup                 \* the signup form: inputs, modal, calls made

uiVars == <<selectedModels, isAnalyzing, currentResults, systemInstructionEl, userPromptEl,
            analyzeButton, clearButton, selectedCards, resultsContainer, metaAnalysisEl,
            metaInDocument, localStorage, pc, locals, sent, settled>>
shellVars == <<auth, nav, signup>>
vars == <<uiVars, today, request, edits, configured, server, shellVars>>

\* ------------------------------------------------------- provider results
\* The serialized ProviderResult of the run_prompt response:
\* { model, status, response, metadata? }.
WireStatus == {"Success", "Configuration Required", "Error"}

ConfigMessage == "This model requires configuration. Please add the necessary API keys to your .env file."

modelDisplayNames(m) ==
    CASE m = "gemini-2.0-flash-exp" -> "Gemini 2.0 Flash"
      [] m = "gpt-4-turbo" -> "GPT-4 Turbo"
      [] m = "gpt-3.5-turbo" -> "GPT-3.5 Turbo"
      [] m = "claude-3-opus" -> "Claude 3 Opus"
      [] OTHER -> m

\* One result card: title, status badge, the text in the body (a sequence of
\* text pieces) and whether the metrics grid is rendered.
createResultCard(result) ==
    [title |-> modelDisplayNames(result.model),
     badge |-> result.status,
     body |-> IF result.status = "Success" THEN <<result.response>>
              ELSE IF result.status = "Configuration Required" THEN <<ConfigMessage>>
              ELSE <<"Error: ", result.response>>,
     metrics |-> result.metadata]

\* displayResults writing the cards last result first.
displayResults_reversed(results) ==
    [i \in 1..Len(results) |-> createResultCard(results[Len(results) + 1 - i])]

\* The card grid displayResults writes: one card per result, in order.
displayResults(results) == [i \in 1..Len(results) |-> createResultCard(results[i])]

EmptyView == [kind |-> "empty", cards |-> <<>>]
LoadingView == [kind |-> "loading", cards |-> <<>>]
ErrorView == [kind |-> "error", cards |-> <<>>]
CardsView(results) == [kind |-> "cards", cards |-> displayResults(results)]

\* The #metaAnalysis placeholder displayResults appends: hidden, with a spinner.
MetaPlaceholder == [display |-> FALSE, content |-> "spinner", analysis |-> None]
MetaError(el) == [el EXCEPT !.content = "error", !.analysis = None]
MetaScores(el, analysis) == [el EXCEPT !.content = "scores", !.analysis = Some(analysis)]

\* analyzeButton.disabled as updateAnalyzeButton sets it.
updateAnalyzeButton(prompt, models, analyzing) ==
    LET hasPrompt == Len(trim(prompt)) > 0
        hasModels == Len(models) > 0
    IN  ~hasPrompt \/ ~hasModels \/ analyzing

\* The object saveState stores under 'playgroundState'.
saveState(sys, prompt, models, results, now) ==
    Some([systemInstruction |-> sys,
          userPrompt |-> prompt,
          selectedModels |-> models,
          results |-> results,
          timestamp |-> now])

\* ------------------------------------------------------------- page load
\* The page as the script's top level leaves it before init() runs.
PageDefaults(storage, buttonDisabled) ==
    [selectedModels |-> DefaultModels,
     isAnalyzing |-> FALSE,
     currentResults |-> None,
     systemInstructionEl |-> <<>>,
     userPromptEl |-> <<>>,
     analyzeButton |-> buttonDisabled,
     clearButton |-> TRUE,
     selectedCards |-> {DefaultModels[i] : i \in 1..Len(DefaultModels)},
     resultsContainer |-> EmptyView,
     metaAnalysisEl |-> MetaPlaceholder,
     metaInDocument |-> FALSE,
     localStorage |-> storage]

\* A localStorage item that JSON.parse rejects.
NotJSON == [text |-> "not json"]

\* loadSavedState without the comparison of the two dates.
loadSavedState_noFreshness(page, now) ==
    IF page.localStorage = None THEN page
    ELSE IF page.localStorage[1] = NotJSON THEN [page EXCEPT !.localStorage = None]
    ELSE LET state == page.localStorage[1]
             restored == [page EXCEPT
                 !.systemInstructionEl =
                     IF state.systemInstruction # <<>> THEN state.systemInstruction ELSE @,
                 !.userPromptEl =
                     IF state.userPrompt # <<>> THEN state.userPrompt ELSE @,
                 !.selectedModels = state.selectedModels,
                 !.selectedCards = {m \in modelCards : includes(state.selectedModels, m)}]
         IN  IF state.results # None /\ Len(state.results[1]) > 0
             THEN [restored EXCEPT
                      !.currentResults = state.results,
                      !.clearButton = FALSE,
                      !.resultsContainer = CardsView(state.results[1]),
                      !.metaAnalysisEl = MetaPlaceholder,
                      !.metaInDocument = TRUE]
             ELSE restored

\* loadSavedState, as a function of the page and the current instant.
loadSavedState(page, now) ==
    IF page.localStorage = None THEN page
    ELSE IF page.localStorage[1] = NotJSON THEN [page EXCEPT !.localStorage = None]
    ELSE LET state == page.localStorage[1]
             withInputs == [page EXCEPT
                 !.systemInstructionEl =
                     IF state.systemInstruction # <<>> THEN state.systemInstruction ELSE @,
                 !.userPromptEl =
                     IF state.userPrompt # <<>> THEN state.userPrompt ELSE @]
             withModels == [withInputs EXCEPT
                 !.selectedModels = state.selectedModels,
                 !.selectedCards = {m \in modelCards : includes(state.selectedModels, m)}]
             hasResults == state.results # None /\ Len(state.results[1]) > 0
         IN  IF toDateString(state.timestamp) # toDateString(now)
             THEN [page EXCEPT !.localStorage = None]
             ELSE IF hasResults
             THEN [withModels EXCEPT
                      !.currentResults = state.results,
                      !.clearButton = FALSE,
                      !.resultsContainer = CardsView(state.results[1]),
                      !.metaAnalysisEl = MetaPlaceholder,
                      !.metaInDocument = TRUE]
             ELSE withModels

\* init(): the listeners are attached and loadSavedState() runs.
init(storage, buttonDisabled, now) == loadSavedState(PageDefaults(storage, buttonDisabled), now)

NoLocals == [systemInstruction |-> <<>>, userPrompt |-> <<>>, results |-> <<>>]
NothingSent == [run |-> 0, meta |-> 0]
NothingSettled == [url |-> "", outcome |-> ""]

\* ---------------------------------------------------------------- backend
\* The provider adapters, the fan-out runner and the meta-analysis requester
\* behind the two endpoints.
Providers == ClickableCards

HttpOutcomes == {"2xx", "non2xx", "transport", "malformed"}

GeneratedText == "generated text"

errorDetailOf(outcome) ==
    CASE outcome = "non2xx" -> "HTTP 500: provider error"
      [] outcome = "transport" -> "connection failed"
      [] OTHER -> "malformed response body"

\* Provider Adapter, configuration absent: no request is made.
adapterMissing(provider) ==
    [provider |-> provider, status |-> "ConfigurationMissing",
     responseText |-> None, errorDetail |-> None, metadata |-> FALSE]

\* adapterResult keeping the text of the failed answer beside the error.
adapterResult_keepsText(provider, outcome) ==
    IF outcome = "2xx"
    THEN [provider |-> provider, status |-> "Success",
          responseText |-> Some(GeneratedText), errorDetail |-> None, metadata |-> TRUE]
    ELSE [provider |-> provider, status |-> "Error",
          responseText |-> Some(""), errorDetail |-> Some(errorDetailOf(outcome)),
          metadata |-> FALSE]

\* Provider Adapter, after its one HTTP request ended with `outcome`.
adapterResult(provider, outcome) ==
    IF outcome = "2xx"
    THEN [provider |-> provider, status |-> "Success",
          responseText |-> Some(GeneratedText), errorDetail |-> None, metadata |-> TRUE]
    ELSE [provider |-> provider, status |-> "Error",
          responseText |-> None, errorDetail |-> Some(errorDetailOf(outcome)),
          metadata |-> FALSE]

\* The terminal results one adapter call can end in.
invokeOutcomes(provider, cfg, outcomes) ==
    IF provider \notin cfg THEN {adapterMissing(provider)}
    ELSE {adapterResult(provider, o) : o \in outcomes}

\* A ProviderResult as the run_prompt response carries it.
serialize(pr) ==
    [model |-> pr.provider,
     status |-> IF pr.status = "ConfigurationMissing" THEN "Configuration Required"
                ELSE pr.status,
     response |-> IF pr.responseText # None THEN pr.responseText[1]
                  ELSE IF pr.errorDetail # None THEN pr.errorDetail[1]
                  ELSE "",
     metadata |-> pr.metadata]

\* Every result sequence the fan-out runner can return for `providers`.
RECURSIVE fanOutResults(_, _, _)
fanOutResults(providers, cfg, outcomes) ==
    IF providers = <<>> THEN {<<>>}
    ELSE {<<serialize(h)>> \o t : h \in invokeOutcomes(Head(providers), cfg, outcomes),
                                   t \in fanOutResults(Tail(providers), cfg, outcomes)}

\* RequestInvalid: rejected before any provider is contacted.
requestInvalid(body) == body.prompt = <<>> \/ body.models = <<>>

\* Scores are kept in tenths: 89 is 8.9, the range [0, 10] is 0..100.
ScoreNames == {"clarity_score", "relevance_score", "factual_accuracy",
               "reasoning_quality", "conciseness"}
AnalysisFields == ScoreNames \cup {"overall_summary"}
Judged(score, summary) ==
    [f \in AnalysisFields |-> IF f = "overall_summary" THEN summary ELSE score]
BaseJudgeOutput == Judged(Some(89), Some("summary"))
JudgeOutputs ==
    {BaseJudgeOutput, Judged(Some(0), Some("summary")), Judged(Some(100), Some("summary"))}
    \cup {[BaseJudgeOutput EXCEPT ![f] = v] : f \in ScoreNames, v \in {None, Some(-1), Some(101)}}
    \cup {[BaseJudgeOutput EXCEPT !["overall_summary"] = None]}

\* Whether the judge's output parses into the MetaAnalysis shape.
parseable(j) ==
    /\ \A f \in ScoreNames : j[f] # None /\ j[f][1] >= 0 /\ j[f][1] <= 100
    /\ j["overall_summary"] # None

\* The settled fetch as the page observes it.
Settled(url, outcome, results, analysis) ==
    [url |-> url, outcome |-> outcome, results |-> results, analysis |-> analysis]

\* What a fetch of run_prompt can settle with.
runPromptResponses(body, cfg, outcomes) ==
    IF requestInvalid(body) THEN {Settled("run_prompt", "http_error", <<>>, None)}
    ELSE {Settled("run_prompt", "ok", r, None) : r \in fanOutResults(body.models, cfg, outcomes)}

\* What a fetch of analyze_results can settle with.
analyzeResponses(body, outputs) ==
    {IF parseable(j) THEN Settled("analyze_results", "ok", <<>>, Some(j))
     ELSE Settled("analyze_results", "http_error", <<>>, None) : j \in outputs}
    \cup {Settled("analyze_results", "http_error", <<>>, None)}

\* Failures below the endpoints: the connection fails, or an answer arrives
\* with a 2xx status and a body without the expected key.
transportFailures(url) ==
    {Settled(url, "network_error", <<>>, None), Settled(url, "ok_empty", <<>>, None)}

JudgeProvider == "gemini-2.0-flash-exp"

Pending == [state |-> "pending", result |-> None]
Calling == [state |-> "calling", result |-> None]
Done(result) == [state |-> "done", result |-> Some(result)]

NoCalls == [p \in Providers |-> 0]

\* The backend between requests.
ServerIdle ==
    [phase |-> "idle", providers |-> <<>>, adapters |-> <<>>, calls |-> NoCalls,
     finished |-> <<>>, judge |-> "pending", judgeCalls |-> 0, judged |-> None,
     response |-> None]

Responded(srv, r) == [srv EXCEPT !.phase = "responded", !.response = Some(r)]

\* The answer has left: the backend waits for the next request.  What it did
\* for the last one (calls made, completion order, judge output) stays on record.
Answered(srv) == [srv EXCEPT !.phase = "idle", !.response = None]

\* ------------------------------------------------------------- navigation
\* features/navigation/script.js.  A panel is shown when it does not carry the
\* class 'hidden'; a rail button is highlighted when it carries the primary
\* classes (active) and not 'text-gray-300' (gray).
EditorPanels == {"editor-pane", "history-panel", "assistant-panel"}
InjectionPanels == {"promptInjectionsPanel", "promptInjectionsHistory"}
PlaygroundPanels == {"playgroundPanel"}
Panels == EditorPanels \cup InjectionPanels \cup PlaygroundPanels
NavButtons == {"editorBtn", "settingsBtn", "playgroundBtn"}

\* The class lists the markup can give the panels and buttons, whether the
\* page has the playground panel and its button, and which globals the other
\* scripts of the page have defined.
Markups ==
    [hidden : [Panels -> BOOLEAN], active : [NavButtons -> BOOLEAN],
     gray : [NavButtons -> BOOLEAN], hasPlayground : BOOLEAN,
     hasSupabase : BOOLEAN, hasDisplay : BOOLEAN, hasChat : BOOLEAN]

\* The navigation state right after the markup is parsed, before the script ran.
NavOf(markup) ==
    [hidden |-> [p \in Panels |-> IF p \in PlaygroundPanels /\ ~markup.hasPlayground
                                  THEN TRUE ELSE markup.hidden[p]],
     active |-> [b \in NavButtons |-> IF b = "playgroundBtn" /\ ~markup.hasPlayground
                                      THEN FALSE ELSE markup.active[b]],
     gray |-> [b \in NavButtons |-> IF b = "playgroundBtn" /\ ~markup.hasPlayground
                                    THEN TRUE ELSE markup.gray[b]],
     hasPlayground |-> markup.hasPlayground,
     hasSupabase |-> markup.hasSupabase,
     hasDisplay |-> markup.hasDisplay,
     hasChat |-> markup.hasChat,
     messages |-> <<>>,
     editorUpdates |-> 0,
     editorText |-> None,
     promptInjectionMode |-> FALSE,
     playgroundInitialized |-> FALSE,
     initCalls |-> 0,
     initReturns |-> 0,
     lastInit |-> "",
     timers |-> 0,
     syncCalls |-> 0,
     syncs |-> 0,
     syncsSettled |-> 0,
     warnings |-> 0,
     refreshes |-> 0,
     switches |-> 0,
     last |-> "",
     clicks |-> 0]

\* classList.add('hidden') / remove('hidden') on a set of panels.
hide(hidden, panels) == [p \in Panels |-> IF p \in panels THEN TRUE ELSE hidden[p]]
unhide(hidden, panels) == [p \in Panels |-> IF p \in panels THEN FALSE ELSE hidden[p]]

\* The button-state block of the three functions: `button` gets the primary
\* classes and loses the gray one, the others the reverse.  The playground
\* button is touched only when the page has it.
highlight(n, button) ==
    LET touched == IF n.hasPlayground THEN NavButtons ELSE NavButtons \ {"playgroundBtn"}
    IN  [n EXCEPT
           !.active = [b \in NavButtons |-> IF b \in touched THEN b = button ELSE n.active[b]],
           !.gray = [b \in NavButtons |-> IF b \in touched THEN b # button ELSE n.gray[b]]]

\* showEditor up to its setTimeout.
editorShown(n) ==
    LET shown == [n EXCEPT
                    !.promptInjectionMode = FALSE,
                    !.hidden = hide(unhide(n.hidden, EditorPanels),
                                    InjectionPanels \cup
                                    (IF n.hasPlayground THEN PlaygroundPanels ELSE {})),
                    !.timers = @ + 1]
    IN  [highlight(shown, "editorBtn") EXCEPT !.last = "showEditor"]

\* updateSecurityHistoryDisplay(), when the page defines it.
refreshed(n) == IF n.hasDisplay THEN [n EXCEPT !.refreshes = @ + 1] ELSE n

\* showSettings leaving the playground panel as it is.
settingsShown_keepsPlayground(n) ==
    LET shown == [n EXCEPT
                    !.promptInjectionMode = TRUE,
                    !.switches = @ + 1,
                    !.hidden = unhide(hide(n.hidden, EditorPanels), InjectionPanels)]
        marked == [highlight(shown, "settingsBtn") EXCEPT !.last = "showSettings"]
    IN  IF n.hasSupabase
        THEN [marked EXCEPT !.syncCalls = @ + 1, !.syncs = @ + 1]
        ELSE refreshed(marked)

\* showSettings: the panels, the buttons, then sync() with its callback
\* registered, or the display refreshed at once.
settingsShown(n) ==
    LET shown == [n EXCEPT
                    !.promptInjectionMode = TRUE,
                    !.switches = @ + 1,
                    !.hidden = unhide(hide(n.hidden, EditorPanels \cup
                                           (IF n.hasPlayground THEN PlaygroundPanels ELSE {})),
                                      InjectionPanels)]
        marked == [highlight(shown, "settingsBtn") EXCEPT !.last = "showSettings"]
    IN  IF n.hasSupabase
        THEN [marked EXCEPT !.syncCalls = @ + 1, !.syncs = @ + 1]
        ELSE refreshed(marked)

\* What the call of initializePlayground can come to: the function is not
\* defined, it throws, or it returns.
InitOutcomes == {"missing", "throws", "returns"}

\* The initialisation block setting the flag before the call.
initialized_flagFirst(n, outcome) ==
    IF n.playgroundInitialized THEN [n EXCEPT !.lastInit = "skipped"]
    ELSE IF outcome = "missing" THEN [n EXCEPT !.lastInit = outcome]
    ELSE IF outcome = "throws"
    THEN [n EXCEPT !.lastInit = outcome, !.initCalls = @ + 1, !.playgroundInitialized = TRUE]
    ELSE [n EXCEPT !.lastInit = outcome, !.initCalls = @ + 1, !.initReturns = @ + 1,
                   !.playgroundInitialized = TRUE]

\* The initialisation block of showPlayground.
initialized(n, outcome) ==
    IF n.playgroundInitialized THEN [n EXCEPT !.lastInit = "skipped"]
    ELSE IF outcome = "missing" THEN [n EXCEPT !.lastInit = outcome]
    ELSE IF outcome = "throws" THEN [n EXCEPT !.lastInit = outcome, !.initCalls = @ + 1]
    ELSE [n EXCEPT !.lastInit = outcome, !.initCalls = @ + 1, !.initReturns = @ + 1,
                   !.playgroundInitialized = TRUE]

\* showPlayground.
playgroundShown(n, outcome) ==
    LET hiddenOthers == [n EXCEPT
                    !.promptInjectionMode = FALSE,
                    !.hidden = hide(n.hidden, EditorPanels \cup InjectionPanels)]
        shown == IF n.hasPlayground
                 THEN initialized([hiddenOthers EXCEPT
                                      !.hidden = unhide(@, PlaygroundPanels)], outcome)
                 ELSE hiddenOthers
    IN  [highlight(shown, "playgroundBtn") EXCEPT !.last = "showPlayground"]

\* The messages window.chatManager.messages can hold.
ChatMessages == [role : {"user", "ai"}, content : {"x", "y"}]

\* messages.slice().reverse().find(msg => msg.role === 'ai'): None when no
\* message has the role.
RECURSIVE lastAiMessage(_)
lastAiMessage(messages) ==
    IF messages = <<>> THEN None
    ELSE IF messages[Len(messages)].role = "ai" THEN Some(messages[Len(messages)])
    ELSE lastAiMessage(SubSeq(messages, 1, Len(messages) - 1))

\* The timer callback of showEditor: updateTextEditor with the last AI
\* message when the chat manager has one.
editorSynced(n) ==
    IF n.hasChat /\ lastAiMessage(n.messages) # None
    THEN [n EXCEPT !.editorUpdates = @ + 1,
                   !.editorText = Some(lastAiMessage(n.messages)[1].content)]
    ELSE n

\* The navigation script has run: its last statement is showEditor().
NavLoaded(markup) == editorShown(NavOf(markup))

NavAtRest ==
    NavLoaded([hidden |-> [p \in Panels |-> FALSE], active |-> [b \in NavButtons |-> FALSE],
               gray |-> [b \in NavButtons |-> FALSE], hasPlayground |-> TRUE,
               hasSupabase |-> TRUE, hasDisplay |-> TRUE, hasChat |-> TRUE])

\* ---------------------------------------------------------- authentication
\* The authentication script: the page starts with the loading overlay shown,
\* the main content hidden and checkAuth() waiting for getSession().
SessionOutcomes == {"session", "error", "none", "throws"}

\* The user of a session: with or without an e-mail address and a full name.
Users == [hasEmail : BOOLEAN, hasName : BOOLEAN]

AuthEvents == {"INITIAL_SESSION", "SIGNED_IN", "SIGNED_OUT"}

AuthLoaded ==
    [pc |-> "getSession",
     loadingHidden |-> FALSE,
     mainHidden |-> TRUE,
     location |-> "page",
     outcome |-> "",
     profile |-> None,
     signOuts |-> 0,
     signOutCalls |-> 0,
     signOutErrors |-> 0,
     lastSignOut |-> "",
     events |-> 0]

\* setupProfile throws when it calls charAt on a missing e-mail address.
setupProfileThrows(user) == ~user.hasName /\ ~user.hasEmail

\* What setupProfile writes into the profile widget.
setupProfile(user) ==
    Some([initials |-> IF user.hasName THEN "name" ELSE "email", email |-> user.hasEmail])

redirectToLogin(a) == [a EXCEPT !.location = "/login_signup"]

showMainContent(a, user) ==
    LET revealed == [a EXCEPT !.loadingHidden = TRUE, !.mainHidden = FALSE]
    IN  IF setupProfileThrows(user) THEN redirectToLogin(revealed)
        ELSE [revealed EXCEPT !.profile = setupProfile(user)]

\* checkAuth revealing the page although getSession returned an error.
checkAuth_ignoresError(a, outcome, user) ==
    LET seen == [a EXCEPT !.pc = "done", !.outcome = outcome]
    IN  IF outcome \in {"session", "error"} THEN showMainContent(seen, user)
        ELSE redirectToLogin(seen)

\* checkAuth after getSession settled.
checkAuth(a, outcome, user) ==
    LET seen == [a EXCEPT !.pc = "done", !.outcome = outcome]
    IN  IF outcome = "session" THEN showMainContent(seen, user) ELSE redirectToLogin(seen)

\* How supabase signOut can end: without error, with an error, by throwing.
SignOutOutcomes == {"ok", "error", "throws"}

\* handleSignOut with a catch block that only logs.
signedOut_staysOnThrow(a, outcome) ==
    LET ended == [a EXCEPT !.signOuts = @ - 1, !.lastSignOut = outcome]
    IN  IF outcome = "throws" THEN [ended EXCEPT !.signOutErrors = @ + 1]
        ELSE [ended EXCEPT !.signOutErrors = IF outcome = "error" THEN @ + 1 ELSE @,
                           !.location = "/"]

\* handleSignOut after its await: the error is logged, and both the try and
\* the catch block assign the location.
signedOut(a, outcome) ==
    LET ended == [a EXCEPT !.signOuts = @ - 1, !.lastSignOut = outcome]
    IN  IF outcome = "throws" THEN [ended EXCEPT !.signOutErrors = @ + 1, !.location = "/"]
        ELSE [ended EXCEPT !.signOutErrors = IF outcome = "error" THEN @ + 1 ELSE @,
                           !.location = "/"]

AuthAtRest == AuthLoaded

\* ------------------------------------------------------------------ signup
\* static/js/signup.js.  Characters stand for their classes: "A" an uppercase
\* letter, "a" a lowercase letter, "1" a digit, "!" one of the characters of
\* the regular expression's special class, "_" a printable character outside
\* every class of the expression, " " whitespace, "@" and "." themselves.
isWhitespace(c) == c = " "
isUppercase(c) == c = "A"
isSpecial(c) == c = "!"
inPasswordClass(c) == c \in {"A", "a", "1", "!"}

\* /^[^\s@]+@[^\s@]+\.[^\s@]+$/.test(email)
isValidEmail(email) ==
    /\ \A i \in 1..Len(email) : ~isWhitespace(email[i])
    /\ \E i \in 2..Len(email) :
          /\ email[i] = "@"
          /\ \A k \in 1..Len(email) : email[k] = "@" => k = i
          /\ \E j \in (i + 2)..(Len(email) - 1) : email[j] = "."

\* /^(?=.*[A-Z])(?=.*[special])[A-Za-z\d special]{6,}$/.test(password)
isValidPassword(password) ==
    /\ \E i \in 1..Len(password) : isUppercase(password[i])
    /\ \E i \in 1..Len(password) : isSpecial(password[i])
    /\ \A i \in 1..Len(password) : inPasswordClass(password[i])
    /\ Len(password) >= MinPasswordLength

PasswordMessage == "Password must be at least 6 characters long, contain at least one uppercase letter, and one special character."

\* validateForm: "" when the form is accepted, else the message it shows.
validateForm(form) ==
    LET fullName == trim(form.fullName)
        email == trim(form.email)
        password == trim(form.password)
    IN  IF fullName = <<>> THEN "Please enter your full name."
        ELSE IF email = <<>> \/ ~isValidEmail(email) THEN "Please enter a valid email address."
        ELSE IF ~isValidPassword(password)
        THEN PasswordMessage
        ELSE ""

\* The inputs the form is filled with.
FullNames == {<<>>, <<" ">>, <<"a">>}
Emails == {<<>>, <<"a", "@", "a", ".", "a">>, <<"a", "@", "a">>, <<"@", "a", ".", "a">>,
           <<"a", " ", "@", "a", ".", "a">>, <<"a", "@", ".", "a">>, <<"a", "@", "a", ".">>,
           <<"a", "@", "a", "@", "a", ".", "a">>, <<" ", "a", "@", "a", ".", "a", ".", "a">>}
PasswordChars == {"A", "a", "1", "!", "_", " "}
PasswordStems == {<<"A", "a", "1", "a", "!">>, <<"a", "a", "1", "a", "!">>,
                  <<"A", "a", "1", "a", "a">>}
PasswordTails == {<<>>} \cup {<<c>> : c \in PasswordChars}
                        \cup {<<c, d>> : c, d \in PasswordChars}
Passwords == {stem \o tail : stem \in PasswordStems, tail \in PasswordTails}

SignupForm(fullName, email, password) ==
    [fullName |-> fullName, email |-> email, password |-> password,
     modal |-> "", submits |-> 0, signUpCalls |-> 0, awaitingSignUp |-> 0,
     awaitingInsert |-> 0, redirectTimers |-> 0, location |-> "page"]

SignupAtRest == SignupForm(<<>>, <<>>, <<>>)

\* ------------------------------------------------------------ page events
Init ==
    /\ today = 0
    /\ auth = AuthAtRest
    /\ nav = NavAtRest
    /\ signup = SignupAtRest
    /\ configured = {"gemini-2.0-flash-exp"}
    /\ server = ServerIdle
    /\ request = None
    /\ edits = 0
    /\ pc = "idle"
    /\ locals = NoLocals
    /\ sent = NothingSent
    /\ settled = NothingSettled
    /\ \E disabled \in BOOLEAN : LET page == init(None, disabled, today)
       IN  /\ selectedModels = page.selectedModels
           /\ isAnalyzing = page.isAnalyzing
           /\ currentResults = page.currentResults
           /\ systemInstructionEl = page.systemInstructionEl
           /\ userPromptEl = page.userPromptEl
           /\ analyzeButton = page.analyzeButton
           /\ clearButton = page.clearButton
           /\ selectedCards = page.selectedCards
           /\ resultsContainer = page.resultsContainer
           /\ metaAnalysisEl = page.metaAnalysisEl
           /\ metaInDocument = page.metaInDocument
           /\ localStorage = page.localStorage

\* The page is loaded again: the script state starts over, localStorage stays,
\* and nothing listens any more to a fetch of the previous page.
Reload ==
    /\ \E disabled \in BOOLEAN : LET page == init(localStorage, disabled, today)
       IN  /\ selectedModels' = page.selectedModels
           /\ isAnalyzing' = page.isAnalyzing
           /\ currentResults' = page.currentResults
           /\ systemInstructionEl' = page.systemInstructionEl
           /\ userPromptEl' = page.userPromptEl
           /\ analyzeButton' = page.analyzeButton
           /\ clearButton' = page.clearButton
           /\ selectedCards' = page.selectedCards
           /\ resultsContainer' = page.resultsContainer
           /\ metaAnalysisEl' = page.metaAnalysisEl
           /\ metaInDocument' = page.metaInDocument
           /\ localStorage' = page.localStorage
    /\ pc' = "idle"
    /\ locals' = NoLocals
    /\ sent' = NothingSent
    /\ settled' = NothingSettled
    /\ request' = None
    /\ UNCHANGED <<today, edits, configured, server, shellVars>>

\* The clock advances by one instant.
timePasses ==
    /\ today < LastInstant
    /\ today' = today + 1
    /\ UNCHANGED <<uiVars, request, edits, configured, server, shellVars>>

\* toggleModelSelection pushing the model whether or not the list has it.
toggleModelSelection_alwaysPush(model) ==
    /\ edits < MaxEdits
    /\ edits' = edits + 1
    /\ selectedCards' = IF model \in selectedCards THEN selectedCards \ {model}
                        ELSE selectedCards \cup {model}
    /\ selectedModels' = Append(selectedModels, model)
    /\ analyzeButton' = updateAnalyzeButton(userPromptEl, selectedModels', isAnalyzing)
    /\ UNCHANGED <<isAnalyzing, currentResults, systemInstructionEl, userPromptEl, clearButton,
                   resultsContainer, metaAnalysisEl, metaInDocument, localStorage, pc, locals,
                   sent, settled, today, request, configured, server, shellVars>>

\* A click on an enabled model card.
toggleModelSelection(model) ==
    /\ edits < MaxEdits
    /\ edits' = edits + 1
    /\ selectedCards' = IF model \in selectedCards THEN selectedCards \ {model}
                        ELSE selectedCards \cup {model}
    /\ selectedModels' = IF includes(selectedModels, model) THEN filterOut(selectedModels, model)
                         ELSE Append(selectedModels, model)
    /\ analyzeButton' = updateAnalyzeButton(userPromptEl, selectedModels', isAnalyzing)
    /\ UNCHANGED <<isAnalyzing, currentResults, systemInstructionEl, userPromptEl, clearButton,
                   resultsContainer, metaAnalysisEl, metaInDocument, localStorage, pc, locals,
                   sent, settled, today, request, configured, server, shellVars>>

\* The 'input' listener of the user prompt.
userPromptInput(text) ==
    /\ edits < MaxEdits
    /\ edits' = edits + 1
    /\ text # userPromptEl
    /\ userPromptEl' = text
    /\ analyzeButton' = updateAnalyzeButton(text, selectedModels, isAnalyzing)
    /\ UNCHANGED <<selectedModels, isAnalyzing, currentResults, systemInstructionEl, clearButton,
                   selectedCards, resultsContainer, metaAnalysisEl, metaInDocument, localStorage,
                   pc, locals, sent, settled, today, request, configured,
                   server, shellVars>>

\* The 'input' listener of the system instruction.
systemInstructionInput(text) ==
    /\ edits < MaxEdits
    /\ edits' = edits + 1
    /\ text # systemInstructionEl
    /\ systemInstructionEl' = text
    /\ localStorage' = IF currentResults # None
                       THEN saveState(text, userPromptEl, selectedModels, currentResults, today)
                       ELSE localStorage
    /\ UNCHANGED <<selectedModels, isAnalyzing, currentResults, userPromptEl, analyzeButton,
                   clearButton, selectedCards, resultsContainer, metaAnalysisEl, metaInDocument,
                   pc, locals, sent, settled, today, request, configured,
                   server, shellVars>>

\* A click on the (visible) clear button.
clearResults ==
    /\ ~clearButton
    /\ resultsContainer' = EmptyView
    /\ metaInDocument' = FALSE
    /\ clearButton' = TRUE
    /\ currentResults' = None
    /\ localStorage' = None
    /\ UNCHANGED <<selectedModels, isAnalyzing, systemInstructionEl, userPromptEl, analyzeButton,
                   selectedCards, metaAnalysisEl, pc, locals, sent, settled, today,
                   request, edits, configured, server, shellVars>>

\* -------------------------------------------------------- handleAnalyze
RunPromptBody(sys, prompt, models) ==
    [system_instruction |-> sys, prompt |-> prompt, models |-> models]

\* AnalyzeResultsBody sending only the successful results.
AnalyzeResultsBody_onlySuccesses(results, prompt) ==
    [results |-> SelectSeq(results, LAMBDA x : x.status = "Success"),
     original_prompt |-> prompt]

AnalyzeResultsBody(results, prompt) ==
    [results |-> results, original_prompt |-> prompt]

Fetch(url, body) == Some([url |-> url, body |-> body])

\* earlyReturn without the empty-prompt check.
earlyReturn_noPromptCheck(analyzing, userPrompt, models) ==
    analyzing \/ Len(models) = 0

\* earlyReturn without the isAnalyzing check.
earlyReturn_noAnalyzingCheck(analyzing, userPrompt, models) ==
    userPrompt = <<>> \/ Len(models) = 0

\* The three early returns of handleAnalyze.
earlyReturn(analyzing, userPrompt, models) ==
    analyzing \/ userPrompt = <<>> \/ Len(models) = 0

\* handleAnalyze up to its first await.
handleAnalyze ==
    /\ LET systemInstruction == trim(systemInstructionEl)
           userPrompt == trim(userPromptEl)
       IN  IF earlyReturn(isAnalyzing, userPrompt, selectedModels)
           THEN UNCHANGED vars
           ELSE /\ isAnalyzing' = TRUE
                /\ analyzeButton' = updateAnalyzeButton(userPromptEl, selectedModels, TRUE)
                /\ resultsContainer' = LoadingView
                /\ metaInDocument' = FALSE
                /\ request' = Fetch("run_prompt",
                                    RunPromptBody(systemInstruction, userPrompt, selectedModels))
                /\ pc' = "run_prompt"
                /\ locals' = [systemInstruction |-> systemInstruction,
                              userPrompt |-> userPrompt, results |-> <<>>]
                /\ sent' = [run |-> 1, meta |-> 0]
                /\ settled' = NothingSettled
                /\ UNCHANGED <<selectedModels, currentResults, systemInstructionEl, userPromptEl,
                               clearButton, selectedCards, metaAnalysisEl, localStorage, today,
                               edits, configured, server, shellVars>>

\* runPromptSettled with a catch block that sends the request once more.
runPromptSettled_retry(r) ==
    /\ pc = "run_prompt"
    /\ r.outcome # "ok"
    /\ settled' = [url |-> r.url, outcome |-> r.outcome]
    /\ sent' = [sent EXCEPT !.run = @ + 1]
    /\ UNCHANGED <<selectedModels, isAnalyzing, currentResults, systemInstructionEl, userPromptEl,
                   analyzeButton, clearButton, selectedCards, resultsContainer, metaAnalysisEl,
                   metaInDocument, localStorage, pc, locals, request, today, edits, configured, shellVars>>

\* runPromptSettled treating a failed provider as a failed run.
runPromptSettled_failOnProviderError(r) ==
    /\ pc = "run_prompt"
    /\ settled' = [url |-> r.url, outcome |-> r.outcome]
    /\ IF r.outcome = "ok" /\ \A i \in 1..Len(r.results) : r.results[i].status = "Success"
       THEN /\ currentResults' = Some(r.results)
            /\ clearButton' = FALSE
            /\ resultsContainer' = CardsView(r.results)
            /\ metaAnalysisEl' = [MetaPlaceholder EXCEPT !.display = TRUE]
            /\ metaInDocument' = TRUE
            /\ request' = Fetch("analyze_results",
                                AnalyzeResultsBody(r.results, locals.userPrompt))
            /\ pc' = "analyze_results"
            /\ locals' = [locals EXCEPT !.results = r.results]
            /\ sent' = [sent EXCEPT !.meta = @ + 1]
            /\ UNCHANGED <<isAnalyzing, analyzeButton>>
       ELSE /\ resultsContainer' = ErrorView
            /\ metaInDocument' = FALSE
            /\ request' = None
            /\ isAnalyzing' = FALSE
            /\ analyzeButton' = updateAnalyzeButton(userPromptEl, selectedModels, FALSE)
            /\ pc' = "idle"
            /\ locals' = NoLocals
            /\ UNCHANGED <<currentResults, clearButton, metaAnalysisEl, sent>>
    /\ UNCHANGED <<selectedModels, systemInstructionEl, userPromptEl, selectedCards,
                   localStorage, today, edits, configured, shellVars>>

\* runPromptSettled with a catch block that stores the page state.
runPromptSettled_saveOnFailure(r) ==
    /\ pc = "run_prompt"
    /\ settled' = [url |-> r.url, outcome |-> r.outcome]
    /\ IF r.outcome = "ok"
       THEN /\ currentResults' = Some(r.results)
            /\ clearButton' = FALSE
            /\ resultsContainer' = CardsView(r.results)
            /\ metaAnalysisEl' = [MetaPlaceholder EXCEPT !.display = TRUE]
            /\ metaInDocument' = TRUE
            /\ request' = Fetch("analyze_results",
                                AnalyzeResultsBody(r.results, locals.userPrompt))
            /\ pc' = "analyze_results"
            /\ locals' = [locals EXCEPT !.results = r.results]
            /\ sent' = [sent EXCEPT !.meta = @ + 1]
            /\ UNCHANGED <<isAnalyzing, analyzeButton, localStorage>>
       ELSE /\ currentResults' = IF r.outcome = "ok_empty" THEN None ELSE currentResults
            /\ clearButton' = IF r.outcome = "ok_empty" THEN FALSE ELSE clearButton
            /\ resultsContainer' = ErrorView
            /\ metaInDocument' = FALSE
            /\ request' = None
            /\ isAnalyzing' = FALSE
            /\ analyzeButton' = updateAnalyzeButton(userPromptEl, selectedModels, FALSE)
            /\ pc' = "idle"
            /\ locals' = NoLocals
            /\ localStorage' = saveState(systemInstructionEl, userPromptEl, selectedModels,
                                         currentResults', today)
            /\ UNCHANGED <<metaAnalysisEl, sent>>
    /\ UNCHANGED <<selectedModels, systemInstructionEl, userPromptEl, selectedCards,
                   today, edits, configured, shellVars>>

\* handleAnalyze resumes after the run_prompt fetch settled with `r`: on a 2xx
\* answer with results it shows the cards and enters getMetaAnalysis up to its
\* await; otherwise its catch and finally blocks run.
runPromptSettled(r) ==
    /\ pc = "run_prompt"
    /\ settled' = [url |-> r.url, outcome |-> r.outcome]
    /\ IF r.outcome = "ok"
       THEN /\ currentResults' = Some(r.results)
            /\ clearButton' = FALSE
            /\ resultsContainer' = CardsView(r.results)
            /\ metaAnalysisEl' = [MetaPlaceholder EXCEPT !.display = TRUE]
            /\ metaInDocument' = TRUE
            /\ request' = Fetch("analyze_results",
                                AnalyzeResultsBody(r.results, locals.userPrompt))
            /\ pc' = "analyze_results"
            /\ locals' = [locals EXCEPT !.results = r.results]
            /\ sent' = [sent EXCEPT !.meta = @ + 1]
            /\ UNCHANGED <<isAnalyzing, analyzeButton>>
       ELSE /\ currentResults' = IF r.outcome = "ok_empty" THEN None ELSE currentResults
            /\ clearButton' = IF r.outcome = "ok_empty" THEN FALSE ELSE clearButton
            /\ resultsContainer' = ErrorView
            /\ metaInDocument' = FALSE
            /\ request' = None
            /\ isAnalyzing' = FALSE
            /\ analyzeButton' = updateAnalyzeButton(userPromptEl, selectedModels, FALSE)
            /\ pc' = "idle"
            /\ locals' = NoLocals
            /\ UNCHANGED <<metaAnalysisEl, sent>>
    /\ UNCHANGED <<selectedModels, systemInstructionEl, userPromptEl, selectedCards,
                   localStorage, today, edits, configured, shellVars>>

\* getMetaAnalysis showing a zeroed score record when the analysis failed.
getMetaAnalysis_defaults(r, el, inDocument) ==
    IF r.outcome = "ok" /\ r.analysis # None /\ inDocument
    THEN MetaScores(el, r.analysis[1])
    ELSE MetaScores(el, Judged(Some(0), None))

\* The #metaAnalysis element after getMetaAnalysis handled the settled fetch
\* `r`: the scores when displayMetaAnalysis succeeds, the error text when the
\* fetch failed or displayMetaAnalysis threw.
getMetaAnalysis(r, el, inDocument) ==
    IF r.outcome = "ok" /\ r.analysis # None /\ inDocument
    THEN MetaScores(el, r.analysis[1])
    ELSE MetaError(el)

\* analyzeResultsSettled with a getMetaAnalysis that has no catch: the failure
\* reaches the catch and finally blocks of handleAnalyze.
analyzeResultsSettled_rethrow(r) ==
    /\ pc = "analyze_results"
    /\ settled' = [url |-> r.url, outcome |-> r.outcome]
    /\ IF r.outcome = "ok" /\ r.analysis # None /\ metaInDocument
       THEN /\ metaAnalysisEl' = MetaScores(metaAnalysisEl, r.analysis[1])
            /\ localStorage' = saveState(systemInstructionEl, userPromptEl, selectedModels,
                                         currentResults, today)
            /\ UNCHANGED <<resultsContainer, metaInDocument>>
       ELSE /\ resultsContainer' = ErrorView
            /\ metaInDocument' = FALSE
            /\ UNCHANGED <<metaAnalysisEl, localStorage>>
    /\ request' = None
    /\ isAnalyzing' = FALSE
    /\ analyzeButton' = updateAnalyzeButton(userPromptEl, selectedModels, FALSE)
    /\ pc' = "idle"
    /\ locals' = NoLocals
    /\ UNCHANGED <<selectedModels, currentResults, systemInstructionEl, userPromptEl, clearButton,
                   selectedCards, sent, today, edits, configured, shellVars>>

\* analyzeResultsSettled with a handleAnalyze that has no finally block and a
\* getMetaAnalysis that has no catch: after a failed meta-analysis nothing
\* clears isAnalyzing.
analyzeResultsSettled_noFinally(r) ==
    /\ pc = "analyze_results"
    /\ settled' = [url |-> r.url, outcome |-> r.outcome]
    /\ IF r.outcome = "ok" /\ r.analysis # None /\ metaInDocument
       THEN /\ metaAnalysisEl' = MetaScores(metaAnalysisEl, r.analysis[1])
            /\ localStorage' = saveState(systemInstructionEl, userPromptEl, selectedModels,
                                         currentResults, today)
            /\ isAnalyzing' = FALSE
            /\ analyzeButton' = updateAnalyzeButton(userPromptEl, selectedModels, FALSE)
       ELSE UNCHANGED <<metaAnalysisEl, localStorage, isAnalyzing, analyzeButton>>
    /\ request' = None
    /\ pc' = "idle"
    /\ locals' = NoLocals
    /\ UNCHANGED <<selectedModels, currentResults, systemInstructionEl, userPromptEl, clearButton,
                   selectedCards, resultsContainer, metaInDocument, sent, today, edits,
                   configured, shellVars>>

\* getMetaAnalysis resumes after the analyze_results fetch settled with `r`,
\* returns, and handleAnalyze saves the state and runs its finally block.
analyzeResultsSettled(r) ==
    /\ pc = "analyze_results"
    /\ settled' = [url |-> r.url, outcome |-> r.outcome]
    /\ metaAnalysisEl' = getMetaAnalysis(r, metaAnalysisEl, metaInDocument)
    /\ localStorage' = saveState(systemInstructionEl, userPromptEl, selectedModels,
                                 currentResults, today)
    /\ request' = None
    /\ isAnalyzing' = FALSE
    /\ analyzeButton' = updateAnalyzeButton(userPromptEl, selectedModels, FALSE)
    /\ pc' = "idle"
    /\ locals' = NoLocals
    /\ UNCHANGED <<selectedModels, currentResults, systemInstructionEl, userPromptEl, clearButton,
                   selectedCards, resultsContainer, metaInDocument, sent, today, edits,
                   configured, shellVars>>

\* ------------------------------------------------- the endpoints, atomically
\* The provider and judge behaviours the page specification draws from.
PageHttpOutcomes == {"2xx", "non2xx"}
PageJudgeOutputs == {BaseJudgeOutput, [BaseJudgeOutput EXCEPT !["conciseness"] = None]}

\* The run_prompt fetch settles and handleAnalyze resumes.
fetchRunPrompt ==
    /\ request # None
    /\ request[1].url = "run_prompt"
    /\ \E r \in runPromptResponses(request[1].body, configured, PageHttpOutcomes)
                \cup transportFailures("run_prompt") :
           runPromptSettled(r)
    /\ UNCHANGED server

\* The analyze_results fetch settles and getMetaAnalysis resumes.
fetchAnalyzeResults ==
    /\ request # None
    /\ request[1].url = "analyze_results"
    /\ \E r \in analyzeResponses(request[1].body, PageJudgeOutputs)
                \cup transportFailures("analyze_results") :
           analyzeResultsSettled(r)
    /\ UNCHANGED server

\* --------------------------------------------- the endpoints, step by step
\* run_prompt arrives: an invalid request is rejected before any adapter is
\* touched, a valid one starts the fan-out with every adapter pending.
receiveRunPrompt ==
    /\ request # None
    /\ request[1].url = "run_prompt"
    /\ server.phase = "idle"
    /\ LET body == request[1].body
       IN  server' = IF requestInvalid(body)
                     THEN Responded(ServerIdle, Settled("run_prompt", "http_error", <<>>, None))
                     ELSE [ServerIdle EXCEPT
                              !.phase = "fanout",
                              !.providers = body.models,
                              !.adapters = [i \in 1..Len(body.models) |-> Pending]]
    /\ UNCHANGED <<uiVars, today, request, edits, configured, shellVars>>

\* adapterInvoke issuing the HTTP request before looking at the configuration.
adapterInvoke_callFirst(i) ==
    /\ server.phase = "fanout"
    /\ server.adapters[i].state = "pending"
    /\ server' = [server EXCEPT !.adapters[i] = Calling, !.calls[server.providers[i]] = @ + 1]
    /\ UNCHANGED <<uiVars, today, request, edits, configured, shellVars>>

\* The fan-out runner invokes the adapter of providers[i]: without the
\* provider's configuration the adapter returns at once, otherwise it issues
\* its one HTTP request.
adapterInvoke(i) ==
    /\ server.phase = "fanout"
    /\ server.adapters[i].state = "pending"
    /\ LET p == server.providers[i]
       IN  server' = IF p \notin configured
                     THEN [server EXCEPT !.adapters[i] = Done(adapterMissing(p)),
                                         !.finished = Append(@, i)]
                     ELSE [server EXCEPT !.adapters[i] = Calling, !.calls[p] = @ + 1]
    /\ UNCHANGED <<uiVars, today, request, edits, configured, shellVars>>

\* The HTTP request of adapter i ends with `outcome`.
adapterReturn(i, outcome) ==
    /\ server.phase = "fanout"
    /\ server.adapters[i].state = "calling"
    /\ server' = [server EXCEPT !.adapters[i] = Done(adapterResult(server.providers[i], outcome)),
                                !.finished = Append(@, i)]
    /\ UNCHANGED <<uiVars, today, request, edits, configured, shellVars>>

\* A join that is satisfied by the first terminal result.
allTerminal_any(srv) == \E i \in 1..Len(srv.adapters) : srv.adapters[i].state = "done"

\* The join point of the fan-out.
allTerminal(srv) == \A i \in 1..Len(srv.adapters) : srv.adapters[i].state = "done"

\* The aggregate: the terminal results, in request order.
RECURSIVE aggregate(_)
aggregate(adapters) ==
    IF adapters = <<>> THEN <<>>
    ELSE IF Head(adapters).state = "done"
    THEN <<serialize(Head(adapters).result[1])>> \o aggregate(Tail(adapters))
    ELSE aggregate(Tail(adapters))

\* The runner returns the aggregate.
runnerReturn ==
    /\ server.phase = "fanout"
    /\ allTerminal(server)
    /\ server' = Responded(server, Settled("run_prompt", "ok", aggregate(server.adapters), None))
    /\ UNCHANGED <<uiVars, today, request, edits, configured, shellVars>>

\* analyze_results arrives.
receiveAnalyzeResults ==
    /\ request # None
    /\ request[1].url = "analyze_results"
    /\ server.phase = "idle"
    /\ server' = [ServerIdle EXCEPT !.phase = "judging"]
    /\ UNCHANGED <<uiVars, today, request, edits, configured, shellVars>>

\* The one call to the judge provider, through the adapter contract.
judgeInvoke ==
    /\ server.phase = "judging"
    /\ server.judge = "pending"
    /\ server' = IF JudgeProvider \notin configured
                 THEN Responded(server, Settled("analyze_results", "http_error", <<>>, None))
                 ELSE [server EXCEPT !.judge = "calling", !.judgeCalls = @ + 1]
    /\ UNCHANGED <<uiVars, today, request, edits, configured, shellVars>>

\* The answer of analyze_results once the judge call ended: the parsed
\* analysis, or AnalysisUnavailable as a non-2xx answer.
analyze(outcome, output) ==
    IF outcome = "2xx" /\ parseable(output)
    THEN Settled("analyze_results", "ok", <<>>, Some(output))
    ELSE Settled("analyze_results", "http_error", <<>>, None)

\* The judge call ends.
judgeReturn(outcome, output) ==
    /\ server.phase = "judging"
    /\ server.judge = "calling"
    /\ server' = Responded([server EXCEPT !.judge = "done",
                                           !.judged = IF outcome = "2xx" THEN Some(output) ELSE None],
                            analyze(outcome, output))
    /\ UNCHANGED <<uiVars, today, request, edits, configured, shellVars>>

\* The answer reaches the page, or the connection fails, and the fetch settles.
deliverRunPrompt ==
    /\ server.phase = "responded"
    /\ server.response[1].url = "run_prompt"
    /\ \E r \in {server.response[1], Settled("run_prompt", "network_error", <<>>, None)} :
           runPromptSettled(r)
    /\ server' = Answered(server)

deliverAnalyzeResults ==
    /\ server.phase = "responded"
    /\ server.response[1].url = "analyze_results"
    /\ \E r \in {server.response[1], Settled("analyze_results", "network_error", <<>>, None)} :
           analyzeResultsSettled(r)
    /\ server' = Answered(server)

Next ==
    \/ Reload
    \/ \E m \in ClickableCards : toggleModelSelection(m)
    \/ \E t \in Texts : userPromptInput(t)
    \/ \E t \in SysTexts : systemInstructionInput(t)
    \/ clearResults
    \/ handleAnalyze
    \/ fetchRunPrompt
    \/ fetchAnalyzeResults

Spec == Init /\ [][Next]_vars

\* Something other than the page leaves an unparseable item under the key.
storageCorrupted ==
    /\ localStorage # Some(NotJSON)
    /\ localStorage' = Some(NotJSON)
    /\ UNCHANGED <<selectedModels, isAnalyzing, currentResults, systemInstructionEl, userPromptEl,
                   analyzeButton, clearButton, selectedCards, resultsContainer, metaAnalysisEl,
                   metaInDocument, pc, locals, sent, settled, today, request, edits, configured,
                   server, shellVars>>

\* The run_prompt request is answered with a non-2xx status by the server or
\* by something on the way to it, and handleAnalyze resumes.
runPromptRejected ==
    /\ request # None
    /\ request[1].url = "run_prompt"
    /\ runPromptSettled(Settled("run_prompt", "http_error", <<>>, None))
    /\ UNCHANGED server

\* The lists of models a sequence of card clicks can leave selected.
ModelLists ==
    {l \in UNION {[1..n -> ClickableCards] : n \in 0..Cardinality(ClickableCards)} :
        \A i, j \in 1..Len(l) : i # j => l[i] # l[j]}

\* The page over several days: its inputs already made, then analyses and
\* their failures, reloads, the clock, and whatever else writes under the
\* storage key.
InitDays ==
    /\ today = 0
    /\ auth = AuthAtRest
    /\ nav = NavAtRest
    /\ signup = SignupAtRest
    /\ configured = {"gemini-2.0-flash-exp"}
    /\ server = ServerIdle
    /\ request = None
    /\ edits = 0
    /\ pc = "idle"
    /\ locals = NoLocals
    /\ sent = NothingSent
    /\ settled = NothingSettled
    /\ selectedModels \in ModelLists
    /\ selectedCards = {selectedModels[i] : i \in 1..Len(selectedModels)}
    /\ userPromptEl \in {<<>>, <<" ", "a">>}
    /\ systemInstructionEl \in {<<>>, <<"a">>}
    /\ analyzeButton = updateAnalyzeButton(userPromptEl, selectedModels, FALSE)
    /\ isAnalyzing = FALSE
    /\ currentResults = None
    /\ clearButton = TRUE
    /\ resultsContainer = EmptyView
    /\ metaAnalysisEl = MetaPlaceholder
    /\ metaInDocument = FALSE
    /\ localStorage = None

NextDays ==
    \/ Reload
    \/ timePasses
    \/ storageCorrupted
    \/ clearResults
    \/ handleAnalyze
    \/ fetchRunPrompt
    \/ runPromptRejected
    \/ fetchAnalyzeResults

SpecDays == InitDays /\ [][NextDays]_vars

\* SpecDays where every fetch in flight eventually resolves or rejects.
SpecDaysLive ==
    /\ SpecDays
    /\ WF_vars(fetchRunPrompt \/ runPromptRejected)
    /\ WF_vars(fetchAnalyzeResults)

\* ------------------------------------------------------- the navigation rail
\* The playground as its script leaves it on a page with nothing stored.
PlaygroundAtRest ==
    /\ today = 0
    /\ configured = {"gemini-2.0-flash-exp"}
    /\ server = ServerIdle
    /\ request = None
    /\ edits = 0
    /\ pc = "idle"
    /\ locals = NoLocals
    /\ sent = NothingSent
    /\ settled = NothingSettled
    /\ LET page == init(None, TRUE, today)
       IN  /\ selectedModels = page.selectedModels
           /\ isAnalyzing = page.isAnalyzing
           /\ currentResults = page.currentResults
           /\ systemInstructionEl = page.systemInstructionEl
           /\ userPromptEl = page.userPromptEl
           /\ analyzeButton = page.analyzeButton
           /\ clearButton = page.clearButton
           /\ selectedCards = page.selectedCards
           /\ resultsContainer = page.resultsContainer
           /\ metaAnalysisEl = page.metaAnalysisEl
           /\ metaInDocument = page.metaInDocument
           /\ localStorage = page.localStorage

playgroundVars == <<uiVars, today, request, edits, configured, server>>

\* A click on the editor button or on the back-to-editor button.
showEditor ==
    /\ nav.clicks < MaxClicks
    /\ nav' = [editorShown(nav) EXCEPT !.clicks = @ + 1]
    /\ UNCHANGED <<playgroundVars, auth, signup>>

\* The timer showEditor set fires: the editor text is synced with the chat.
editorSyncTimer ==
    /\ nav.timers > 0
    /\ nav' = editorSynced([nav EXCEPT !.timers = @ - 1])
    /\ UNCHANGED <<playgroundVars, auth, signup>>

\* A click on the security button.
showSettings ==
    /\ nav.clicks < MaxClicks
    /\ nav' = [settingsShown(nav) EXCEPT !.clicks = @ + 1]
    /\ UNCHANGED <<playgroundVars, auth, signup>>

\* How a sync() ends: the data was loaded, or loading failed.
SyncOutcomes == {"synced", "failed"}

\* The promise of sync() is fulfilled only when the data was loaded.
syncFulfils_rejectsOnFailure(outcome) == outcome = "synced"

\* The promise sync() returned: a failure is a console warning, and the
\* promise is fulfilled either way.
syncFulfils(outcome) == outcome \in SyncOutcomes

\* A sync() ends and the callback showSettings registered runs, if it does.
syncSettled(outcome) ==
    /\ nav.syncs > 0
    /\ LET ended == [nav EXCEPT !.syncs = @ - 1, !.syncsSettled = @ + 1,
                                !.warnings = IF outcome = "failed" THEN @ + 1 ELSE @]
       IN  nav' = IF syncFulfils(outcome) THEN refreshed(ended) ELSE ended
    /\ UNCHANGED <<playgroundVars, auth, signup>>

\* A click on the playground button.
showPlayground(outcome) ==
    /\ nav.hasPlayground
    /\ nav.clicks < MaxClicks
    /\ nav' = [playgroundShown(nav, outcome) EXCEPT !.clicks = @ + 1]
    /\ UNCHANGED <<playgroundVars, auth, signup>>

InitNav ==
    /\ PlaygroundAtRest
    /\ auth = AuthAtRest
    /\ signup = SignupAtRest
    /\ \E markup \in Markups : nav = NavLoaded(markup)

NextNav ==
    \/ showEditor
    \/ editorSyncTimer
    \/ showSettings
    \/ \E o \in SyncOutcomes : syncSettled(o)
    \/ \E o \in InitOutcomes : showPlayground(o)

SpecNav == InitNav /\ [][NextNav]_vars

\* The navigation with every sync() that was started coming to an end.
SpecNavLive == SpecNav /\ WF_vars(\E o \in SyncOutcomes : syncSettled(o))

\* The chat receives a message: the user's, or the assistant's answer.
chatMessage(message) ==
    /\ nav.hasChat
    /\ Len(nav.messages) < MaxMessages
    /\ nav' = [nav EXCEPT !.messages = Append(@, message)]
    /\ UNCHANGED <<playgroundVars, auth, signup>>

\* The navigation next to a chat, on a page without promptInjectionSupabase.
InitEditor ==
    /\ PlaygroundAtRest
    /\ auth = AuthAtRest
    /\ signup = SignupAtRest
    /\ \E hasChat \in BOOLEAN :
          nav = NavLoaded([hidden |-> [p \in Panels |-> FALSE],
                           active |-> [b \in NavButtons |-> FALSE],
                           gray |-> [b \in NavButtons |-> FALSE], hasPlayground |-> TRUE,
                           hasSupabase |-> FALSE, hasDisplay |-> TRUE, hasChat |-> hasChat])

NextEditor ==
    \/ showEditor
    \/ editorSyncTimer
    \/ showSettings
    \/ \E o \in InitOutcomes : showPlayground(o)
    \/ \E m \in ChatMessages : chatMessage(m)

SpecEditor == InitEditor /\ [][NextEditor]_vars

\* ------------------------------------------------------- the auth guard
\* getSession settles and checkAuth resumes.
getSessionSettled(outcome, user) ==
    /\ auth.pc = "getSession"
    /\ auth' = checkAuth(auth, outcome, user)
    /\ UNCHANGED <<playgroundVars, nav, signup>>

\* The client reports an auth event to the listener.
onAuthStateChange(event, hasSession) ==
    /\ auth.events < MaxAuthEvents
    /\ auth' = [auth EXCEPT !.events = @ + 1,
                            !.location = IF event = "SIGNED_OUT" \/ ~hasSession THEN "/" ELSE @]
    /\ UNCHANGED <<playgroundVars, nav, signup>>

\* A click on the sign-out button of the revealed page: handleSignOut up to
\* its await.
handleSignOut ==
    /\ ~auth.mainHidden
    /\ auth.signOutCalls < MaxAuthEvents
    /\ auth' = [auth EXCEPT !.signOutCalls = @ + 1, !.signOuts = @ + 1]
    /\ UNCHANGED <<playgroundVars, nav, signup>>

\* signOut settles, with or without an error, or throws, and handleSignOut
\* resumes.
signOutSettled(outcome) ==
    /\ auth.signOuts > 0
    /\ auth' = signedOut(auth, outcome)
    /\ UNCHANGED <<playgroundVars, nav, signup>>

InitAuth ==
    /\ PlaygroundAtRest
    /\ nav = NavAtRest
    /\ signup = SignupAtRest
    /\ auth = AuthLoaded

NextAuth ==
    \/ \E o \in SessionOutcomes, u \in Users : getSessionSettled(o, u)
    \/ \E e \in AuthEvents, hasSession \in BOOLEAN : onAuthStateChange(e, hasSession)
    \/ handleSignOut
    \/ \E o \in SignOutOutcomes : signOutSettled(o)

SpecAuth == InitAuth /\ [][NextAuth]_vars

\* ------------------------------------------------------- the signup form
\* The form is submitted: validateForm, then signUp is awaited.
submit ==
    /\ signup.submits < MaxSubmits
    /\ LET message == validateForm(signup)
       IN  signup' = IF message # ""
                     THEN [signup EXCEPT !.submits = @ + 1, !.modal = message]
                     ELSE [signup EXCEPT !.submits = @ + 1, !.signUpCalls = @ + 1,
                                         !.awaitingSignUp = @ + 1]
    /\ UNCHANGED <<playgroundVars, auth, nav>>

SignUpOutcomes == {"error", "throws", "unconfirmed", "user"}

\* signUp settles: an error or exception is shown, an account without a user
\* id asks for the e-mail confirmation, otherwise the Users row is inserted.
signUpSettled(outcome) ==
    /\ signup.awaitingSignUp > 0
    /\ signup' = [signup EXCEPT
                     !.awaitingSignUp = @ - 1,
                     !.modal = IF outcome \in {"error", "throws"} THEN "Error signing up"
                               ELSE IF outcome = "unconfirmed" THEN "Account created!"
                               ELSE @,
                     !.awaitingInsert = IF outcome = "user" THEN @ + 1 ELSE @]
    /\ UNCHANGED <<playgroundVars, auth, nav>>

\* The insert settles: on success the redirect is scheduled.
insertSettled(ok) ==
    /\ signup.awaitingInsert > 0
    /\ signup' = [signup EXCEPT
                     !.awaitingInsert = @ - 1,
                     !.modal = IF ok THEN "Account Registered!" ELSE "Error signing up",
                     !.redirectTimers = IF ok THEN @ + 1 ELSE @]
    /\ UNCHANGED <<playgroundVars, auth, nav>>

\* The two seconds are over.
redirectTimer ==
    /\ signup.redirectTimers > 0
    /\ signup' = [signup EXCEPT !.redirectTimers = @ - 1, !.location = "/login_signup"]
    /\ UNCHANGED <<playgroundVars, auth, nav>>

InitSignup ==
    /\ PlaygroundAtRest
    /\ auth = AuthAtRest
    /\ nav = NavAtRest
    /\ \E fullName \in FullNames, email \in Emails, password \in Passwords :
          signup = SignupForm(fullName, email, password)

NextSignup ==
    \/ submit
    \/ \E o \in SignUpOutcomes : signUpSettled(o)
    \/ \E ok \in BOOLEAN : insertSettled(ok)
    \/ redirectTimer

SpecSignup == InitSignup /\ [][NextSignup]_vars

\* One page, its inputs already made, and its first analysis against the
\* backend step by step.
InitBackend ==
    /\ today = 0
    /\ auth = AuthAtRest
    /\ nav = NavAtRest
    /\ signup = SignupAtRest
    /\ configured \in SUBSET Providers
    /\ server = ServerIdle
    /\ request = None
    /\ edits = 0
    /\ pc = "idle"
    /\ locals = NoLocals
    /\ sent = NothingSent
    /\ settled = NothingSettled
    /\ selectedModels \in ModelLists
    /\ selectedCards = {selectedModels[i] : i \in 1..Len(selectedModels)}
    /\ userPromptEl \in {<<>>, <<" ", "a">>}
    /\ systemInstructionEl = <<>>
    /\ analyzeButton = updateAnalyzeButton(userPromptEl, selectedModels, FALSE)
    /\ isAnalyzing = FALSE
    /\ currentResults = None
    /\ clearButton = TRUE
    /\ resultsContainer = EmptyView
    /\ metaAnalysisEl = MetaPlaceholder
    /\ metaInDocument = FALSE
    /\ localStorage = None

NextBackend ==
    \/ sent = NothingSent /\ handleAnalyze
    \/ receiveRunPrompt
    \/ \E i \in 1..Len(server.adapters) : adapterInvoke(i)
    \/ \E i \in 1..Len(server.adapters), o \in HttpOutcomes : adapterReturn(i, o)
    \/ runnerReturn
    \/ deliverRunPrompt
    \/ receiveAnalyzeResults
    \/ judgeInvoke
    \/ \E o \in HttpOutcomes, j \in JudgeOutputs : judgeReturn(o, j)
    \/ deliverAnalyzeResults

SpecBackend == InitBackend /\ [][NextBackend]_vars

\* The first analysis with the backend making progress: every adapter call that
\* was issued ends, and the runner takes each step that stays possible.
SpecRunner ==
    /\ InitBackend
    /\ [][NextBackend]_vars
    /\ WF_vars(\E i \in 1..Len(server.adapters) : adapterInvoke(i))
    /\ WF_vars(\E i \in 1..Len(server.adapters), o \in HttpOutcomes : adapterReturn(i, o))
    /\ WF_vars(runnerReturn)

\* ================================================================ claims
IsRunPrompt(req) == req # None /\ req[1].url = "run_prompt"
IsAnalyzeResults(req) == req # None /\ req[1].url = "analyze_results"

\* C1: every run_prompt request in flight carries a prompt that is trimmed and
\* non-empty and at least one model, whatever toggles, edits and restores
\* preceded it.
C1_RunPromptIsValid ==
    IsRunPrompt(request) =>
        /\ request[1].body.prompt # <<>>
        /\ trim(request[1].body.prompt) = request[1].body.prompt
        /\ Len(request[1].body.models) >= 1

\* A run_prompt request sent from a page that restored a saved state and whose
\* model selection was changed.
C1_Witness ==
    /\ IsRunPrompt(request)
    /\ localStorage # None
    /\ currentResults # None
    /\ selectedModels # DefaultModels

\* C2: a run goes submit -> run_prompt -> cards -> analyze_results -> scores.
\* run_prompt is sent only by a handleAnalyze call that starts from rest;
\* analyze_results is sent only in the step in which the run_prompt fetch of the
\* same call settles, with results the endpoint can return for that request,
\* those results displayed as cards and stored, and the prompt of that request;
\* scores appear only in the step in which the analyze_results fetch settles.
C2_RunOrder ==
    [][/\ (IsRunPrompt(request') /\ request' # request) =>
              (pc = "idle" /\ request = None /\ resultsContainer'.kind = "loading")
       /\ (IsAnalyzeResults(request') /\ request' # request) =>
              /\ IsRunPrompt(request)
              /\ pc = "run_prompt"
              /\ Settled("run_prompt", "ok", request'[1].body.results, None)
                     \in runPromptResponses(request[1].body, configured, PageHttpOutcomes)
              /\ request'[1].body.original_prompt = request[1].body.prompt
              /\ currentResults' = Some(request'[1].body.results)
              /\ resultsContainer'.kind = "cards"
              /\ Len(resultsContainer'.cards) = Len(request'[1].body.results)
              /\ metaInDocument'
              /\ metaAnalysisEl'.content = "spinner"
       /\ (metaAnalysisEl'.content = "scores" /\ metaAnalysisEl.content # "scores") =>
              (IsAnalyzeResults(request) /\ pc = "analyze_results" /\ request' = None)
      ]_vars

\* The end of a run whose prompt was edited while it was in flight: the scores
\* are shown.
C2_Witness ==
    /\ pc = "idle"
    /\ settled = [url |-> "analyze_results", outcome |-> "ok"]
    /\ metaAnalysisEl.content = "scores"
    /\ metaInDocument
    /\ resultsContainer.kind = "cards"
    /\ Len(resultsContainer.cards) >= 2

\* The step in which the page sees the analyze_results fetch fail: a non-2xx
\* answer, a transport failure, or a body without an analysis.
MetaAnalysisFails ==
    /\ pc = "analyze_results"
    /\ pc' = "idle"
    /\ settled'.url = "analyze_results"
    /\ settled'.outcome \in {"http_error", "network_error", "ok_empty"}

\* C3: a failed meta-analysis puts the error text into the meta-analysis panel
\* and nowhere else: the results area and currentResults are as before, the
\* state is saved and isAnalyzing is cleared.
C3_MetaFailureIsLocal ==
    [][MetaAnalysisFails =>
          /\ metaAnalysisEl' = MetaError(metaAnalysisEl)
          /\ resultsContainer' = resultsContainer
          /\ metaInDocument' = metaInDocument
          /\ currentResults' = currentResults
          /\ clearButton' = clearButton
          /\ localStorage' = saveState(systemInstructionEl, userPromptEl, selectedModels,
                                       currentResults, today)
          /\ isAnalyzing' = FALSE
          /\ analyzeButton' = updateAnalyzeButton(userPromptEl, selectedModels, FALSE)
      ]_vars

\* After a failed meta-analysis the cards are still displayed, beside the error.
C3_Witness ==
    /\ pc = "idle"
    /\ settled.url = "analyze_results"
    /\ settled.outcome = "http_error"
    /\ resultsContainer.kind = "cards"
    /\ Len(resultsContainer.cards) >= 1
    /\ metaInDocument
    /\ metaAnalysisEl.content = "error"
    /\ currentResults # None
    /\ localStorage # None
    /\ ~isAnalyzing

\* C10: one handleAnalyze call sends at most one run_prompt and at most one
\* analyze_results request, a request is in flight only while that call is
\* suspended on it, and once the call has ended nothing is in flight.
C10_SingleAttempt ==
    /\ sent.run <= 1
    /\ sent.meta <= 1
    /\ (pc = "idle" => request = None)
    /\ (IsRunPrompt(request) => pc = "run_prompt" /\ sent = [run |-> 1, meta |-> 0])
    /\ (IsAnalyzeResults(request) => pc = "analyze_results" /\ sent = [run |-> 1, meta |-> 1])

\* A run whose run_prompt fetch failed: the call has ended and nothing was re-sent.
C10_Witness ==
    /\ pc = "idle"
    /\ settled.url = "run_prompt"
    /\ settled.outcome \in {"http_error", "network_error"}
    /\ sent = [run |-> 1, meta |-> 0]
    /\ request = None
    /\ resultsContainer.kind = "error"

\* The run_prompt answer the backend has ready.
RunAnswered ==
    /\ server.phase = "responded"
    /\ server.response[1].url = "run_prompt"

FailedStatus(status) == status \in {"Error", "Configuration Required"}

\* C4: the results of a run are one per requested provider, in request order,
\* whatever the order in which the adapters finished, and the page shows one
\* card per result in that order.
C4_OrderPreserved ==
    /\ RunAnswered =>
          LET results == server.response[1].results
              models == request[1].body.models
          IN  /\ server.response[1].outcome = "ok"
              /\ Len(results) = Len(models)
              /\ \A i \in 1..Len(models) : results[i].model = models[i]
    /\ resultsContainer.kind = "cards" =>
          /\ currentResults # None
          /\ Len(resultsContainer.cards) = Len(selectedModels)
          /\ Len(currentResults[1]) = Len(selectedModels)
          /\ \A i \in 1..Len(selectedModels) :
                /\ currentResults[1][i].model = selectedModels[i]
                /\ resultsContainer.cards[i].title = modelDisplayNames(selectedModels[i])
                /\ resultsContainer.cards[i].badge = currentResults[1][i].status

\* Three cards on the page although the last provider finished first and the
\* first one last.
C4_Witness ==
    /\ resultsContainer.kind = "cards"
    /\ Len(resultsContainer.cards) = 3
    /\ Len(server.finished) = 3
    /\ server.finished[1] = 3
    /\ server.finished[3] = 1
    /\ server.calls[selectedModels[1]] = 1
    /\ server.calls[selectedModels[3]] = 1

\* C5: a failed provider neither blocks the others nor fails the run.  While
\* the fan-out runs, every adapter not yet invoked can be invoked and every
\* issued call can end, whatever the others ended in; when the runner has
\* answered, every configured provider was called; the answer is a 2xx answer
\* and the page shows the cards; a failure is shown in the card of the failed
\* result and in no other.
C5_FailureIsLocal ==
    /\ server.phase = "fanout" =>
          \A i \in 1..Len(server.adapters) :
              /\ server.adapters[i].state = "pending" => ENABLED adapterInvoke(i)
              /\ server.adapters[i].state = "calling" => ENABLED adapterReturn(i, "2xx")
    /\ RunAnswered =>
          /\ server.response[1].outcome = "ok"
          /\ \A i \in 1..Len(server.providers) :
                server.providers[i] \in configured => server.calls[server.providers[i]] = 1
    /\ (settled.url = "run_prompt" /\ settled.outcome = "ok") =>
          resultsContainer.kind = "cards"
    /\ resultsContainer.kind = "error" =>
          settled = [url |-> "run_prompt", outcome |-> "network_error"]
    /\ resultsContainer.kind = "cards" =>
          \A i \in 1..Len(resultsContainer.cards) :
              LET card == resultsContainer.cards[i]
                  result == currentResults[1][i]
              IN  /\ (card.body[1] = "Error: ") <=> (result.status = "Error")
                  /\ (card.body = <<ConfigMessage>>) <=> (result.status = "Configuration Required")
                  /\ result.status = "Success" => card.body = <<GeneratedText>>

\* The first two providers failed, one for its configuration and one in its
\* call, and the third card shows the generated text.
C5_Witness ==
    /\ resultsContainer.kind = "cards"
    /\ Len(resultsContainer.cards) = 3
    /\ resultsContainer.cards[1].badge = "Configuration Required"
    /\ resultsContainer.cards[2].badge = "Error"
    /\ resultsContainer.cards[3].badge = "Success"
    /\ resultsContainer.cards[3].body = <<GeneratedText>>
    /\ server.finished = <<1, 2, 3>>

\* C6: the runner answers only when every adapter is terminal, with as many
\* results as providers, also when all of them failed, and a fan-out whose
\* adapter calls end is always answered.
C6_RunnerJoins ==
    /\ [](RunAnswered =>
             /\ allTerminal(server)
             /\ Len(server.adapters) = Len(server.providers)
             /\ Len(server.response[1].results) = Len(server.providers)
             /\ Len(server.finished) = Len(server.providers))
    /\ [][(server'.phase = "responded" /\ server.phase = "fanout") =>
             \A i \in 1..Len(server.providers) : server.adapters[i].state = "done"]_vars
    /\ (server.phase = "fanout" ~> server.phase = "responded")

\* The runner answered a run of three providers of which none succeeded.
C6_Witness ==
    /\ RunAnswered
    /\ Len(server.response[1].results) = 3
    /\ \A i \in 1..3 : FailedStatus(server.response[1].results[i].status)
    /\ \E i \in 1..3 : server.response[1].results[i].status = "Error"

\* C7: a provider without its configuration is never called and its adapter
\* ends in ConfigurationMissing, which the answer carries as "Configuration
\* Required"; the judge is not called without its configuration either.
C7_NoCallWithoutConfiguration ==
    /\ \A p \in Providers \ configured : server.calls[p] = 0
    /\ \A i \in 1..Len(server.adapters) :
          server.providers[i] \notin configured =>
              /\ server.adapters[i].state # "calling"
              /\ server.adapters[i].state = "done" =>
                    server.adapters[i].result[1] = adapterMissing(server.providers[i])
    /\ RunAnswered =>
          \A i \in 1..Len(server.providers) :
              (server.providers[i] \notin configured) <=>
                  (server.response[1].results[i].status = "Configuration Required")
    /\ JudgeProvider \notin configured => (server.judgeCalls = 0 /\ server.judge = "pending")

\* A run answered with one provider configured and called, and another one
\* ConfigurationMissing without a call.
C7_Witness ==
    /\ RunAnswered
    /\ \E i, j \in 1..Len(server.providers) :
          /\ server.providers[i] \notin configured
          /\ server.adapters[i].result[1].status = "ConfigurationMissing"
          /\ server.calls[server.providers[i]] = 0
          /\ server.providers[j] \in configured
          /\ server.calls[server.providers[j]] = 1

\* The ProviderResult invariant.
WellFormed(pr) ==
    /\ pr.status \in {"Success", "ConfigurationMissing", "Error"}
    /\ pr.status = "Success" =>
          (pr.responseText # None /\ pr.responseText[1] # "" /\ pr.errorDetail = None)
    /\ pr.status = "Error" =>
          (pr.errorDetail # None /\ pr.errorDetail[1] # "" /\ pr.responseText = None)
    /\ ~(pr.responseText # None /\ pr.errorDetail # None)

\* C8: every ProviderResult an adapter returned has the text and no error
\* detail when it is a Success, the error detail and no text when it is an
\* Error, and never both; the one `response` string of the answer is the text
\* of a Success and the detail of an Error, and is not empty.
C8_ResultWellFormed ==
    /\ \A i \in 1..Len(server.adapters) :
          server.adapters[i].state = "done" => WellFormed(server.adapters[i].result[1])
    /\ RunAnswered =>
          \A i \in 1..Len(server.providers) :
              LET pr == server.adapters[i].result[1]
                  wire == server.response[1].results[i]
              IN  /\ pr.status = "Success" => wire.response = pr.responseText[1]
                  /\ pr.status = "Error" => wire.response = pr.errorDetail[1]
                  /\ pr.status # "ConfigurationMissing" => wire.response # ""

\* An answer holding a Success and an Error, from a malformed provider answer.
C8_Witness ==
    /\ RunAnswered
    /\ \E i, j \in 1..Len(server.adapters) :
          /\ server.adapters[i].result[1].status = "Success"
          /\ server.adapters[j].result[1].status = "Error"
          /\ server.adapters[j].result[1].errorDetail = Some(errorDetailOf("malformed"))

\* C9: the scores on the page are the judge's, all five within [0, 10] and
\* with a summary; a judge output with a score missing or out of range, or
\* without summary, is answered as a failure and the panel shows the error.
C9_NoPartialAnalysis ==
    /\ metaAnalysisEl.content = "scores" =>
          /\ metaAnalysisEl.analysis # None
          /\ metaAnalysisEl.analysis = server.judged
          /\ \A f \in ScoreNames :
                /\ metaAnalysisEl.analysis[1][f] # None
                /\ metaAnalysisEl.analysis[1][f][1] \in 0..100
          /\ metaAnalysisEl.analysis[1]["overall_summary"] # None
    /\ (server.judge = "done" /\ (server.judged = None \/ ~parseable(server.judged[1]))) =>
          /\ server.phase = "responded" =>
                server.response[1] = Settled("analyze_results", "http_error", <<>>, None)
          /\ settled.url = "analyze_results" =>
                (settled.outcome # "ok" /\ metaAnalysisEl.content = "error")

\* The judge answered with a score out of range and the panel shows the error.
C9_Witness ==
    /\ pc = "idle"
    /\ settled = [url |-> "analyze_results", outcome |-> "http_error"]
    /\ server.judged # None
    /\ server.judged[1]["relevance_score"] = Some(101)
    /\ metaAnalysisEl.content = "error"
    /\ resultsContainer.kind = "cards"


\* ------------------------------------------------------------------- C11
\* A saved state as loadSavedState reads it: fresh when it parses and its
\* timestamp falls on the day the clock shows.
FreshState(storage, now) ==
    /\ storage # None
    /\ storage[1] # NotJSON
    /\ toDateString(storage[1].timestamp) = toDateString(now)

\* C11: on a page load the saved state is restored only when it was saved on
\* the current calendar day: a state of another day, or one that does not
\* parse, is removed from localStorage and the page shows its defaults; a
\* fresh state gives back its inputs, model selection and (when it has any)
\* results and stays stored; and a page load leaves no request in flight and none sent.
C11_SameDayCache ==
    [][Reload =>
        /\ request' = None
        /\ sent' = NothingSent
        /\ server' = server
        /\ (localStorage # None /\ ~FreshState(localStorage, today)) =>
              /\ localStorage' = None
              /\ selectedModels' = DefaultModels
              /\ selectedCards' = {DefaultModels[i] : i \in 1..Len(DefaultModels)}
              /\ userPromptEl' = <<>>
              /\ systemInstructionEl' = <<>>
              /\ currentResults' = None
              /\ resultsContainer' = EmptyView
        /\ FreshState(localStorage, today) =>
              /\ localStorage' = localStorage
              /\ selectedModels' = localStorage[1].selectedModels
              /\ userPromptEl' = localStorage[1].userPrompt
              /\ systemInstructionEl' = localStorage[1].systemInstruction
              /\ IF localStorage[1].results # None /\ localStorage[1].results[1] # <<>>
                 THEN /\ currentResults' = localStorage[1].results
                      /\ resultsContainer' = CardsView(localStorage[1].results[1])
                 ELSE /\ currentResults' = None
                      /\ resultsContainer' = EmptyView
    ]_vars

\* A page load at a later instant of the day of the run gave the run back.
C11_Witness ==
    /\ FreshState(localStorage, today)
    /\ localStorage[1].timestamp < today
    /\ settled = NothingSettled
    /\ currentResults = localStorage[1].results
    /\ resultsContainer.kind = "cards"
    /\ selectedModels # DefaultModels
    /\ systemInstructionEl # <<>>

\* ------------------------------------------------------------------- C16
\* The run_prompt fetch of the running handleAnalyze fails at request level.
RunPromptFails ==
    /\ pc = "run_prompt"
    /\ pc' = "idle"
    /\ settled'.url = "run_prompt"
    /\ settled'.outcome \in {"http_error", "network_error"}

\* C16: when the run_prompt fetch settles with a non-2xx status or a transport
\* error, the results area becomes the one error panel without any card, no
\* analyze_results request is sent or left in flight, the item stored under
\* playgroundState is the one stored before, and isAnalyzing is false again.
C16_RunFailureSurfaced ==
    [][RunPromptFails =>
        /\ resultsContainer' = ErrorView
        /\ resultsContainer'.cards = <<>>
        /\ ~metaInDocument'
        /\ request' = None
        /\ sent'.meta = 0
        /\ localStorage' = localStorage
        /\ ~isAnalyzing'
    ]_vars

\* A run failed with a non-2xx status while the state of an earlier run was
\* stored and its cards had been on the page.
C16_Witness ==
    /\ pc = "idle"
    /\ settled = [url |-> "run_prompt", outcome |-> "http_error"]
    /\ resultsContainer = ErrorView
    /\ localStorage # None
    /\ currentResults # None
    /\ ~isAnalyzing

\* ------------------------------------------------------------------- C17
\* The item stored under playgroundState holds results.
StoresRun(storage) ==
    /\ storage # None
    /\ storage[1] # NotJSON
    /\ storage[1].results # None
    /\ storage[1].results[1] # <<>>

\* The models a list of results answers for, in order.
modelsOf(results) == [i \in 1..Len(results) |-> results[i].model]

\* C17: whenever a state with results is stored, its selectedModels are the
\* models the stored results answer for (the list sent in the run_prompt
\* request), and when handleAnalyze stores it at the end of a run, its
\* userPrompt is, up to surrounding blanks, the prompt sent in that request.
C17_CacheReplaysRun ==
    [][(localStorage' # localStorage /\ StoresRun(localStorage')) =>
        /\ localStorage'[1].selectedModels = modelsOf(localStorage'[1].results[1])
        /\ pc = "analyze_results" => trim(localStorage'[1].userPrompt) = locals.userPrompt
    ]_vars

\* ------------------------------------------------------------------- C18
\* C18: between event handlers the analyze button is disabled exactly when the
\* trimmed prompt is empty, or no model is selected, or an analysis is in
\* flight, from the end of page initialisation on.
C18_ButtonFollowsInputs ==
    analyzeButton = updateAnalyzeButton(userPromptEl, selectedModels, isAnalyzing)

\* ------------------------------------------------------------------- C19
\* C19: selectedModels names no model twice and never the disabled model, and
\* a clickable card carries 'selected' exactly when its model is in the list.
C19_SelectionConsistent ==
    /\ \A i, j \in 1..Len(selectedModels) : i # j => selectedModels[i] # selectedModels[j]
    /\ ~includes(selectedModels, DisabledModel)
    /\ \A m \in ClickableCards : m \in selectedCards <=> includes(selectedModels, m)

\* A page load restored a selection that clicks had reordered: the first
\* default model was deselected and selected again before the run.
C19_Witness ==
    /\ settled = NothingSettled
    /\ currentResults # None
    /\ selectedModels = <<"gpt-4-turbo", "gpt-3.5-turbo", "gemini-2.0-flash-exp">>
    /\ selectedCards = ClickableCards

\* ------------------------------------------------------------------- C13
\* The panels that are shown, and the button that is highlighted.
Visible == {p \in Panels : ~nav.hidden[p]}
Highlighted == {b \in NavButtons : nav.active[b] /\ ~nav.gray[b]}
Dimmed == {b \in NavButtons : ~nav.active[b] /\ nav.gray[b]}

\* A mode is shown: its panels and no others, its button and no other.
ModeShown(panels, button) ==
    /\ Visible = panels
    /\ Highlighted = {button}
    /\ Dimmed = NavButtons \ {button}

\* C13: from the end of the script on and after every click, the mode of the
\* function that ran last is shown and no other: editor mode shows the three
\* editor panels, prompt-injection mode the two prompt-injection panels,
\* playground mode the playground panel, each with its own button
\* highlighted; promptInjectionMode is true exactly in prompt-injection mode;
\* and before any click the mode is editor.
C13_OneModeShown ==
    /\ nav.last = "showEditor" <=> ModeShown(EditorPanels, "editorBtn")
    /\ nav.last = "showSettings" <=> ModeShown(InjectionPanels, "settingsBtn")
    /\ nav.last = "showPlayground" <=> ModeShown(PlaygroundPanels, "playgroundBtn")
    /\ nav.last \in {"showEditor", "showSettings", "showPlayground"}
    /\ nav.promptInjectionMode <=> nav.last = "showSettings"
    /\ nav.clicks = 0 => nav.last = "showEditor"

\* The fourth click brought the playground up after the other two modes had
\* been shown.
C13_Witness ==
    /\ nav.clicks = MaxClicks
    /\ nav.switches > 0
    /\ nav.timers > 1
    /\ ModeShown(PlaygroundPanels, "playgroundBtn")
    /\ ~nav.promptInjectionMode

PlaygroundClicked ==
    /\ nav.hasPlayground
    /\ nav'.clicks = nav.clicks + 1
    /\ nav'.last = "showPlayground"

\* C20: initializePlayground is called only while playgroundInitialized is
\* false; the flag changes only to true, in the step in which the call
\* returned; a showPlayground that finds the flag false tries the call, and
\* when the function is missing or throws the flag stays false; so the
\* function returns at most once per page.
C20_InitializedOnce ==
    /\ [][nav'.initCalls # nav.initCalls =>
            /\ ~nav.playgroundInitialized
            /\ nav'.initCalls = nav.initCalls + 1]_vars
    /\ [][nav'.playgroundInitialized # nav.playgroundInitialized =>
            /\ nav'.playgroundInitialized
            /\ nav'.initCalls = nav.initCalls + 1
            /\ nav'.initReturns = nav.initReturns + 1]_vars
    /\ [][(PlaygroundClicked /\ ~nav.playgroundInitialized) =>
            /\ nav'.lastInit \in InitOutcomes
            /\ nav'.lastInit # "missing" => nav'.initCalls = nav.initCalls + 1
            /\ nav'.lastInit = "missing" => nav'.initCalls = nav.initCalls
            /\ nav'.playgroundInitialized <=> nav'.lastInit = "returns"]_vars
    /\ [][(PlaygroundClicked /\ nav.playgroundInitialized) =>
            /\ nav'.initCalls = nav.initCalls
            /\ nav'.playgroundInitialized]_vars
    /\ [](nav.initReturns <= 1 /\ (nav.playgroundInitialized <=> nav.initReturns = 1))

\* The first call threw, the second returned, and a later click found the
\* flag set and made no call.
C20_Witness ==
    /\ nav.playgroundInitialized
    /\ nav.initCalls = 2
    /\ nav.initReturns = 1
    /\ nav.lastInit = "skipped"

\* ------------------------------------------------------------------- C12
\* The outcomes of the session check other than a session without error.
NoSession == SessionOutcomes \ {"session"}

\* C12: the main content is shown, and the loading overlay hidden, only after
\* getSession returned a session without error; when the check ends in any
\* other way (an error, no session, an exception) the step that ends it sends
\* the page to /login_signup, and the main content stays hidden from then on;
\* no other handler of the script reveals it.
C12_AuthGuard ==
    /\ []((~auth.mainHidden \/ auth.loadingHidden) =>
            (auth.pc = "done" /\ auth.outcome = "session"))
    /\ [](auth.outcome \in NoSession => (auth.mainHidden /\ auth.location # "page"))
    /\ [][(auth.pc = "getSession" /\ auth'.pc = "done" /\ auth'.outcome \in NoSession) =>
            /\ auth'.location = "/login_signup"
            /\ auth'.mainHidden
            /\ ~auth'.loadingHidden]_vars
    /\ [][auth'.mainHidden # auth.mainHidden =>
            (auth.pc = "getSession" /\ auth'.outcome = "session")]_vars

\* getSession returned an error after the listener had seen an event with a
\* session: the page is on its way to /login_signup with the content hidden.
C12_Witness ==
    /\ auth.pc = "done"
    /\ auth.outcome = "error"
    /\ auth.events > 0
    /\ auth.mainHidden
    /\ ~auth.loadingHidden
    /\ auth.location = "/login_signup"

\* ------------------------------------------------------------------- C15
\* The rule the validation message states, on the value validateForm tests.
PasswordRule(password) ==
    /\ Len(password) >= MinPasswordLength
    /\ \E i \in 1..Len(password) : isUppercase(password[i])
    /\ \E i \in 1..Len(password) : isSpecial(password[i])

\* An address of the form x@y.z: three non-empty parts without blanks or '@'.
EmailForm(email) ==
    \E i, j \in 1..Len(email) :
        /\ 1 < i /\ i + 1 < j /\ j < Len(email)
        /\ email[i] = "@"
        /\ email[j] = "."
        /\ \A k \in 1..Len(email) : k # i => email[k] \notin {"@", " "}

\* C15: a submit calls signUp exactly when the name is not empty, the e-mail
\* has the form x@y.z and the password has at least six characters, an
\* uppercase letter and a special character; and on a form with a name and
\* such an e-mail, isValidPassword rejects the password (the password message
\* is shown) exactly when the password breaks that rule.
C15_SignupRules ==
    /\ [][(signup'.signUpCalls = signup.signUpCalls + 1) <=>
            /\ signup'.submits = signup.submits + 1
            /\ trim(signup.fullName) # <<>>
            /\ EmailForm(trim(signup.email))
            /\ PasswordRule(trim(signup.password))]_vars
    /\ [][(signup'.submits = signup.submits + 1 /\ trim(signup.fullName) # <<>>
                /\ EmailForm(trim(signup.email))) =>
            (signup'.modal = PasswordMessage <=> ~PasswordRule(trim(signup.password)))]_vars

\* ------------------------------------------------------------------- C21
\* A timer set by showEditor fires.
TimerFires == nav'.timers = nav.timers - 1

\* C21: every showEditor call sets one timer; when the timer fires there is
\* exactly one updateTextEditor call, with the content of the last message
\* of role 'ai', when the chat manager has such a message, and none
\* otherwise; the editor is updated by nothing else; and the update is made
\* only while the editor mode is still the one shown.
C21_EditorSyncedInEditorMode ==
    /\ [][nav'.last = "showEditor" /\ nav'.clicks = nav.clicks + 1 =>
            nav'.timers = nav.timers + 1]_vars
    /\ [][TimerFires =>
            IF nav.hasChat /\ lastAiMessage(nav.messages) # None
            THEN /\ nav'.editorUpdates = nav.editorUpdates + 1
                 /\ nav'.editorText = Some(lastAiMessage(nav.messages)[1].content)
            ELSE /\ nav'.editorUpdates = nav.editorUpdates
                 /\ nav'.editorText = nav.editorText]_vars
    /\ [][nav'.editorUpdates # nav.editorUpdates => TimerFires]_vars
    /\ [][nav'.editorUpdates # nav.editorUpdates => ModeShown(EditorPanels, "editorBtn")]_vars

\* ------------------------------------------------------------------- C22
\* C22: whenever a supabase signOut ends, without error, with an error or by
\* throwing, handleSignOut sets the location to '/'; and once a sign-out has
\* ended the location is '/' and stays so.
C22_SignOutLeaves ==
    /\ [][auth'.signOuts = auth.signOuts - 1 =>
            /\ auth'.lastSignOut \in SignOutOutcomes
            /\ auth'.location = "/"]_vars
    /\ [](auth.signOutCalls > auth.signOuts => auth.location = "/")

\* Two sign-outs were started from the revealed page; the one that ended
\* last threw.
C22_Witness ==
    /\ auth.outcome = "session"
    /\ auth.signOutCalls = 2
    /\ auth.signOuts = 0
    /\ auth.lastSignOut = "throws"
    /\ auth.signOutErrors > 0
    /\ auth.location = "/"

\* ------------------------------------------------------------------- C23
\* C23: isAnalyzing is true exactly while a handleAnalyze call is between its
\* input checks and its finally block, which is exactly while one of its two
\* requests is in flight; a handleAnalyze call made meanwhile changes
\* nothing; and a run_prompt request is sent only when no analysis is running
\* and no request is in flight, so the requests of two runs never overlap.
C23_OneAnalysisAtATime ==
    /\ [](isAnalyzing <=> pc # "idle")
    /\ [](isAnalyzing <=> request # None)
    /\ [][(isAnalyzing /\ handleAnalyze) => UNCHANGED vars]_vars
    /\ [][(request' # request /\ IsRunPrompt(request')) =>
            (~isAnalyzing /\ request = None /\ sent' = [run |-> 1, meta |-> 0])]_vars
    /\ [](sent.run <= 1 /\ sent.meta <= 1)

\* The analyze_results request of a run is in flight while the inputs, with a
\* selection changed since the run began, would pass the input checks of
\* another run.
C23_Witness ==
    /\ isAnalyzing
    /\ pc = "analyze_results"
    /\ request # None
    /\ trim(userPromptEl) # <<>>
    /\ selectedModels # <<>>
    /\ selectedModels # modelsOf(locals.results)

\* ------------------------------------------------------------------- C24
\* A fetch of the page settles in this step.
FetchSettles == fetchRunPrompt \/ runPromptRejected \/ fetchAnalyzeResults

\* C24: provided every fetch eventually settles, a started analysis ends:
\* isAnalyzing always returns to false.  The settling of run_prompt either
\* goes on to the meta-analysis, with the results of an answered run, or ends
\* the analysis; the settling of analyze_results always ends it; and the step
\* that ends it leaves the analyze button as updateAnalyzeButton computes it
\* from the inputs with isAnalyzing false.
C24_AnalysisTerminates ==
    /\ isAnalyzing ~> ~isAnalyzing
    /\ [][FetchSettles =>
            \/ /\ pc = "run_prompt" /\ pc' = "analyze_results"
               /\ settled'.outcome = "ok" /\ isAnalyzing'
               /\ IsAnalyzeResults(request')
            \/ /\ pc' = "idle" /\ ~isAnalyzing' /\ request' = None
               /\ analyzeButton' = updateAnalyzeButton(userPromptEl', selectedModels', FALSE)]_vars
    /\ [](~isAnalyzing => pc = "idle" /\ request = None)

\* An analysis whose meta-analysis failed has ended and the button is enabled
\* again.
C24_Witness ==
    /\ ~isAnalyzing
    /\ pc = "idle"
    /\ sent = [run |-> 1, meta |-> 1]
    /\ settled.url = "analyze_results"
    /\ settled.outcome # "ok"
    /\ currentResults # None
    /\ analyzeButton = updateAnalyzeButton(userPromptEl, selectedModels, FALSE)
    /\ ~analyzeButton

====
